---- MODULE Spec2Model ----
(***************************************************************************)
(* Model of package xlog (src/xlog.go, with the platform adapters setup()  *)
(* of src/unnamed/part_000 and src/xlog_windows.go): the default-logger    *)
(* slot, Init, the emission path Logger.output, Logger.Close, the Fatal   *)
(* functions and SetFlags, executed by concurrent goroutines.              *)
(***************************************************************************)
EXTENDS Naturals, Integers, Sequences, FiniteSets, TLC

\* ------------------------------------------------------------------ bounds
NThreads == 2     \* goroutines calling into the package
MaxCalls == 3     \* API calls started over the whole run

Threads == 1..NThreads

\* ------------------------------------------------- constants of xlog.go
eFatal == 0
eError == 1
eWarn == 2
eInfo == 3
eTrace == 4

Levels == {eFatal, eError, eWarn, eInfo, eTrace}

tagFatal == "[F] "
tagError == "[E] "
tagWarn == "[W] "
tagInfo == "[I] "
tagTrace == "[T] "

flags == 21
initText == "Logging before logger.Init.\n"

\* ---------------------------------------------------------------- endpoints
\* An io.Writer value is <<kind, n>>.  os.Stderr and os.Stdout are the
\* console; "file" (an *os.File) and "buf" (a *bytes.Buffer) are the values a
\* caller passes as logFile; "il", "wl", "el" are the writers obtained by
\* setup() for the logger numbered n.
Stderr == <<"stderr", 0>>
Stdout == <<"stdout", 0>>
File == <<"file", 0>>
Buf == <<"buf", 0>>
\* The nil interface value of  var il, wl, el io.Writer.
NilWriter == <<"nil", 0>>
\* A nil pointer of the adapter's writer type stored in an io.Writer: what
\* il, wl, el hold after  il, wl, el, syslogErr = setup(name)  returned
\* (nil, nil, nil, err).
NilSysWriter == <<"nilsys", 0>>

LogFiles == {File, Buf}
Console == {Stderr, Stdout}
LoggerIds == 1..(MaxCalls + 1)
SysKinds == {"il", "wl", "el"}
SysWriters == {<<k, n>> : k \in SysKinds, n \in LoggerIds}
Endpoints == Console \cup LogFiles \cup SysWriters \cup {NilSysWriter}

\* w.(io.Closer): *os.File and the adapter's writers have a Close method;
\* the type assertion on a nil interface value fails, on a nil pointer of a
\* closable type it succeeds (and the resulting interface is not nil).
IsCloser(w) == w[1] \in {"file", "il", "wl", "el", "nilsys"}

VARIABLES
  logLock,        \* 0 when free, else the goroutine holding the sync.Mutex
  defaultLogger,  \* the *Logger in the package variable (index into loggers)
  loggers,        \* the Logger objects allocated so far
  pc,             \* where each goroutine stands
  frame,          \* the locals of each goroutine's current call
  returned,       \* the Loggers that an Init call has returned
  closed,         \* per endpoint, how many times its Close has been invoked
  info,           \* per Logger: the arguments of its Init call, how often
                  \* Close ran its closers, how often Init reported syslogErr,
                  \* whether Close had run on the slot's Logger when it was built
  installs,       \* how many times defaultLogger has been assigned by Init
  exited,         \* 0 while the process runs, else its exit status
  ncalls          \* API calls started

vars == <<logLock, defaultLogger, loggers, pc, frame, returned, closed,
          info, installs, exited, ncalls>>

\* ------------------------------------------------------------------- types
\* log.New(out, prefix, flag)
LogNew(out, prefix, flag) == [out |-> out, prefix |-> prefix, flag |-> flag]

\* io.MultiWriter(writers...): the list of writers, in order.
MultiWriter(writers) == writers

BootId == 1

\* initialize with the writers built without initText.
initialize_NoInitText ==
  [logFatal |-> LogNew(<<Stderr>>, tagFatal, flags),
   logError |-> LogNew(<<Stderr>>, tagError, flags),
   logWarn |-> LogNew(<<Stderr>>, tagWarn, flags),
   logInfo |-> LogNew(<<Stderr>>, tagInfo, flags),
   logTrace |-> LogNew(<<Stderr>>, tagTrace, flags),
   closers |-> <<>>,
   initialized |-> FALSE]

\* func initialize(): the bootstrap logger; closers and initialized keep
\* their zero values.
initialize ==
  [logFatal |-> LogNew(<<Stderr>>, initText \o tagFatal, flags),
   logError |-> LogNew(<<Stderr>>, initText \o tagError, flags),
   logWarn |-> LogNew(<<Stderr>>, initText \o tagWarn, flags),
   logInfo |-> LogNew(<<Stderr>>, initText \o tagInfo, flags),
   logTrace |-> LogNew(<<Stderr>>, initText \o tagTrace, flags),
   closers |-> <<>>,
   initialized |-> FALSE]

\* The locals of a call.  l: the receiver of output/Close; mine: the Logger an
\* Init call built; wrote: the writes the fan-out writer has issued so far;
\* outl: the Logger whose output a Fatal function has called; readLocked: whether the
\* package-level function held logLock when it read defaultLogger;
\* afterClose: whether Close had run on the receiver when the call started;
\* flag, nset, setl: the argument of a SetFlags call, how many of its
\* statements are done, and the Logger its first statement applied to.
NoFrame ==
  [l |-> 0, mine |-> 0, level |-> 0, wrote |-> <<>>, pkg |-> FALSE,
   fatal |-> FALSE, inInit |-> FALSE, syslogErr |-> FALSE, outl |-> 0,
   readLocked |-> FALSE, afterClose |-> FALSE, flag |-> 0, nset |-> 0,
   setl |-> 0]

NoArgs == [verbose |-> FALSE, systemLog |-> FALSE, adapterOK |-> TRUE,
           logFile |-> NilWriter]

NewInfo(a) == [args |-> a, closeRuns |-> 0, reported |-> 0,
               sawClosed |-> FALSE]

Init ==
  /\ logLock = 0
  /\ loggers = <<initialize>>
  /\ defaultLogger = BootId
  /\ pc = [t \in Threads |-> "idle"]
  /\ frame = [t \in Threads |-> NoFrame]
  /\ returned = {}
  /\ closed = [e \in Endpoints |-> 0]
  /\ info = <<NewInfo(NoArgs)>>
  /\ installs = 0
  /\ exited = 0
  /\ ncalls = 0

Running == exited = 0
\* A goroutine that is in no call can enter one.  Idle goroutines do not
\* differ from each other, so the one with the least number makes the next
\* call.
CanCall(t) ==
  /\ Running /\ pc[t] = "idle" /\ ncalls < MaxCalls
  /\ \A u \in Threads : u < t => pc[u] # "idle"

\* --------------------------------------------------------------------- Init
\* setup(name): three writers, or (nil, nil, nil, err).
setup(n, ok) ==
  IF ok THEN [il |-> <<"il", n>>, wl |-> <<"wl", n>>, el |-> <<"el", n>>,
              err |-> FALSE]
  ELSE [il |-> NilSysWriter, wl |-> NilSysWriter, el |-> NilSysWriter,
        err |-> TRUE]

AppendIf(s, cond, w) == IF cond THEN Append(s, w) ELSE s

\* for _, w := range []io.Writer{logFile, il, wl, el}: the closers.
RECURSIVE Closers(_)
Closers(ws) ==
  IF ws = <<>> THEN <<>>
  ELSE IF IsCloser(Head(ws)) THEN <<Head(ws)>> \o Closers(Tail(ws))
       ELSE Closers(Tail(ws))

\* NewLogger with os.Stderr appended to eLogs inside  if verbose { ... }.
NewLogger_StderrIfVerbose(n, a) ==
  LET s == IF a.systemLog THEN setup(n, a.adapterOK)
           ELSE [il |-> NilWriter, wl |-> NilWriter, el |-> NilWriter,
                 err |-> FALSE]
      iLogs0 == AppendIf(<<a.logFile>>, s.il # NilWriter, s.il)
      wLogs0 == AppendIf(<<a.logFile>>, s.wl # NilWriter, s.wl)
      eLogs0 == AppendIf(<<a.logFile>>, s.el # NilWriter, s.el)
      eLogs == AppendIf(eLogs0, a.verbose, Stderr)
      iLogs == AppendIf(iLogs0, a.verbose, Stdout)
      wLogs == AppendIf(wLogs0, a.verbose, Stdout)
  IN [logFatal |-> LogNew(MultiWriter(eLogs), tagFatal, flags),
      logError |-> LogNew(MultiWriter(eLogs), tagError, flags),
      logWarn |-> LogNew(MultiWriter(wLogs), tagWarn, flags),
      logInfo |-> LogNew(MultiWriter(iLogs), tagInfo, flags),
      logTrace |-> LogNew(MultiWriter(iLogs), tagTrace, flags),
      closers |-> Closers(<<a.logFile, s.il, s.wl, s.el>>),
      initialized |-> TRUE]

\* The Logger that Init builds (xlog.go 73-111), a the arguments of the call
\* (a.adapterOK: whether setup succeeds), n the number of the new Logger.
NewLogger(n, a) ==
  LET s == IF a.systemLog THEN setup(n, a.adapterOK)
           ELSE [il |-> NilWriter, wl |-> NilWriter, el |-> NilWriter,
                 err |-> FALSE]
      iLogs0 == AppendIf(<<a.logFile>>, s.il # NilWriter, s.il)
      wLogs0 == AppendIf(<<a.logFile>>, s.wl # NilWriter, s.wl)
      eLogs0 == AppendIf(<<a.logFile>>, s.el # NilWriter, s.el)
      eLogs == Append(eLogs0, Stderr)
      iLogs == AppendIf(iLogs0, a.verbose, Stdout)
      wLogs == AppendIf(wLogs0, a.verbose, Stdout)
  IN [logFatal |-> LogNew(MultiWriter(eLogs), tagFatal, flags),
      logError |-> LogNew(MultiWriter(eLogs), tagError, flags),
      logWarn |-> LogNew(MultiWriter(wLogs), tagWarn, flags),
      logInfo |-> LogNew(MultiWriter(iLogs), tagInfo, flags),
      logTrace |-> LogNew(MultiWriter(iLogs), tagTrace, flags),
      closers |-> Closers(<<a.logFile, s.il, s.wl, s.el>>),
      initialized |-> TRUE]

\* The argument values of Init calls; the outcome of setup matters only when
\* systemLog is set.  The sink that is not closable is passed in the calls
\* without system log.
InitArgs ==
  {a \in [verbose : BOOLEAN, systemLog : BOOLEAN, adapterOK : BOOLEAN,
          logFile : LogFiles] :
     /\ a.systemLog \/ a.adapterOK
     /\ a.logFile = Buf => ~a.systemLog}

\* InitInstall without the test of defaultLogger.initialized.
InitInstall_Always(t, a) ==
  /\ CanCall(t)
  /\ logLock = 0
  /\ LET n == Len(loggers) + 1
         syslogErr == a.systemLog /\ ~a.adapterOK
     IN /\ loggers' = Append(loggers, NewLogger(n, a))
        /\ info' = Append(info, [NewInfo(a) EXCEPT !.sawClosed =
                                   info[defaultLogger].closeRuns > 0])
        /\ defaultLogger' = n
        /\ installs' = installs + 1
        /\ IF syslogErr
             THEN /\ logLock' = t
                  /\ frame' = [frame EXCEPT ![t] =
                                 [NoFrame EXCEPT !.inInit = TRUE, !.mine = n,
                                    !.l = n, !.syslogErr = TRUE]]
                  /\ pc' = [pc EXCEPT ![t] = "Init_Error"]
                  /\ UNCHANGED returned
             ELSE /\ logLock' = 0
                  /\ frame' = [frame EXCEPT ![t] = NoFrame]
                  /\ pc' = [pc EXCEPT ![t] = "idle"]
                  /\ returned' = returned \cup {n}
  /\ ncalls' = ncalls + 1
  /\ UNCHANGED <<closed, exited>>

\* Init(name, verbose, systemLog, logFile) from its first statement to the
\* end of
\*   logLock.Lock(); if !defaultLogger.initialized { defaultLogger = &l }
\* and, when syslogErr is nil, on to  return &l  and the deferred Unlock.
\* The Logger l is built from the arguments a (xlog.go 73-111) without
\* touching anything another goroutine can see, and the rest is done under
\* the lock, so the call is one step, taken when the mutex is free: a
\* goroutine waiting in logLock.Lock() of Init differs in nothing from one
\* that makes the call later.  When syslogErr is not nil the goroutine goes
\* on, holding the lock, to Error(syslogErr).
InitInstall(t, a) ==
  /\ CanCall(t)
  /\ logLock = 0
  /\ LET n == Len(loggers) + 1
         syslogErr == a.systemLog /\ ~a.adapterOK
     IN /\ loggers' = Append(loggers, NewLogger(n, a))
        /\ info' = Append(info, [NewInfo(a) EXCEPT !.sawClosed =
                                   info[defaultLogger].closeRuns > 0])
        /\ IF ~loggers[defaultLogger].initialized
             THEN /\ defaultLogger' = n
                  /\ installs' = installs + 1
             ELSE UNCHANGED <<defaultLogger, installs>>
        /\ IF syslogErr
             THEN /\ logLock' = t
                  /\ frame' = [frame EXCEPT ![t] =
                                 [NoFrame EXCEPT !.inInit = TRUE, !.mine = n,
                                    !.l = n, !.syslogErr = TRUE]]
                  /\ pc' = [pc EXCEPT ![t] = "Init_Error"]
                  /\ UNCHANGED returned
             ELSE /\ logLock' = 0
                  /\ frame' = [frame EXCEPT ![t] = NoFrame]
                  /\ pc' = [pc EXCEPT ![t] = "idle"]
                  /\ returned' = returned \cup {n}
  /\ ncalls' = ncalls + 1
  /\ UNCHANGED <<closed, exited>>

\* if syslogErr != nil { Error(syslogErr) }: the package-level Error reads
\* defaultLogger and calls its output.
InitError(t) ==
  /\ Running /\ pc[t] = "Init_Error"
  /\ frame' = [frame EXCEPT ![t].l = defaultLogger, ![t].pkg = TRUE,
                            ![t].readLocked = (logLock = t),
                            ![t].afterClose =
                               (info[defaultLogger].closeRuns > 0)]
  /\ pc' = [pc EXCEPT ![t] = "output_lock"]
  /\ UNCHANGED <<logLock, defaultLogger, loggers, returned, closed, info,
                 installs, exited, ncalls>>

\* ----------------------------------------------------------------- emission
\* The *log.Logger that output selects for a level (the switch of output).
WriterOf(lg, level) ==
  CASE level = eTrace -> lg.logTrace
    [] level = eInfo -> lg.logInfo
    [] level = eWarn -> lg.logWarn
    [] level = eError -> lg.logError
    [] level = eFatal -> lg.logFatal

\* A goroutine enters one of the package-level functions Trace ... Fatalf:
\* defaultLogger.output(level, ...).  The package variable is read here,
\* before output takes the lock.
PkgLog(t) ==
  /\ CanCall(t)
  /\ frame' = [frame EXCEPT ![t] =
                 [NoFrame EXCEPT !.l = defaultLogger, !.pkg = TRUE,
                    !.readLocked = (logLock = t),
                    !.afterClose = (info[defaultLogger].closeRuns > 0)]]
  /\ ncalls' = ncalls + 1
  /\ pc' = [pc EXCEPT ![t] = "output_lock"]
  /\ UNCHANGED <<logLock, defaultLogger, loggers, returned, closed, info,
                 installs, exited>>

\* A goroutine enters one of the methods (l *Logger) Trace ... Fatalf:
\* l.output(level, ...).
LoggerLog(t, l) ==
  /\ CanCall(t)
  /\ l \in returned
  /\ frame' = [frame EXCEPT ![t] =
                 [NoFrame EXCEPT !.l = l,
                    !.afterClose = (info[l].closeRuns > 0)]]
  /\ ncalls' = ncalls + 1
  /\ pc' = [pc EXCEPT ![t] = "output_lock"]
  /\ UNCHANGED <<logLock, defaultLogger, loggers, returned, closed, info,
                 installs, exited>>

\* The levels a call can pass to output: Init's Error(syslogErr) passes
\* eError; the functions are one group per level, the Fatal group being the
\* one that passes eFatal.
LevelsOf(f) == IF f.inInit THEN {eError} ELSE Levels

\* OutputLock that does not wait for the mutex to be free.
OutputLock_NoWait(t, level) ==
  /\ Running /\ pc[t] = "output_lock"
  /\ level \in LevelsOf(frame[t])
  /\ logLock' = t
  /\ frame' = [frame EXCEPT ![t].level = level,
                            ![t].fatal = (level = eFatal)]
  /\ pc' = [pc EXCEPT ![t] = "output_write"]
  /\ UNCHANGED <<defaultLogger, loggers, returned, closed, info, installs,
                 exited, ncalls>>

\* logLock.Lock() in output(level, depth, txt).  Which function was called
\* (its level, and with it whether it is a Fatal function) is fixed here,
\* where it first matters to anything outside the goroutine.
OutputLock(t, level) ==
  /\ Running /\ pc[t] = "output_lock"
  /\ level \in LevelsOf(frame[t])
  /\ logLock = 0
  /\ logLock' = t
  /\ frame' = [frame EXCEPT ![t].level = level,
                            ![t].fatal = (level = eFatal)]
  /\ pc' = [pc EXCEPT ![t] = "output_write"]
  /\ UNCHANGED <<defaultLogger, loggers, returned, closed, info, installs,
                 exited, ncalls>>

\* What one Write call on an endpoint can return.  A nil pointer of the
\* adapter's writer type panics on Write; a closed *os.File returns an error;
\* a *bytes.Buffer never returns one; every other write succeeds or fails.
WriteResults(e) ==
  IF e = NilSysWriter THEN {"panic"}
  ELSE IF e = File /\ closed[e] > 0 THEN {"err"}
  ELSE IF e = Buf THEN {"ok"}
  ELSE {"ok", "err"}

\* A fan-out writer that goes on after an error.
MultiWriterContinues_Always(res) == TRUE

\* Whether the fan-out writer goes on to the next writer after a Write
\* returned res: io.MultiWriter returns at the first error.
MultiWriterContinues(res) == res = "ok"

\* l.logX.Output(3+depth, txt): the *log.Logger writes the line once to its
\* io.MultiWriter, which calls Write on its writers in order.  One step per
\* writer.  The error that Output returns is dropped by output.
OutputWrite(t) ==
  /\ Running /\ pc[t] = "output_write"
  /\ LET f == frame[t]
         w == WriterOf(loggers[f.l], f.level)
         i == Len(f.wrote) + 1
         e == w.out[i]
     IN \E res \in WriteResults(e) :
          IF res = "panic"
            THEN /\ exited' = 2
                 /\ UNCHANGED <<frame, pc, info>>
            ELSE /\ frame' = [frame EXCEPT ![t].wrote =
                                Append(f.wrote, [ep |-> e, prefix |-> w.prefix,
                                                 res |-> res])]
                 /\ pc' = [pc EXCEPT ![t] =
                             IF MultiWriterContinues(res) /\ i < Len(w.out)
                               THEN "output_write" ELSE "output_return"]
                 /\ info' = IF f.inInit /\ i = 1
                              THEN [info EXCEPT ![f.mine].reported = @ + 1]
                              ELSE info
                 /\ UNCHANGED exited
  /\ UNCHANGED <<logLock, defaultLogger, loggers, returned, closed, installs,
                 ncalls>>

\* The deferred logLock.Unlock() of output and the return to the caller: a
\* Fatal function goes on to Close, every other function returns; Init, back
\* from Error(syslogErr), goes on to  return &l  and its own deferred Unlock.
OutputReturn(t) ==
  /\ Running /\ pc[t] = "output_return"
  /\ logLock' = 0
  /\ pc' = [pc EXCEPT ![t] = IF frame[t].fatal THEN "Fatal_Close"
                             ELSE "idle"]
  /\ frame' = [frame EXCEPT ![t] =
                 IF frame[t].fatal
                   THEN [NoFrame EXCEPT !.l = frame[t].l, !.outl = frame[t].l,
                           !.pkg = frame[t].pkg, !.fatal = TRUE,
                           !.level = eFatal]
                 ELSE NoFrame]
  /\ returned' = IF frame[t].inInit THEN returned \cup {frame[t].mine}
                 ELSE returned
  /\ UNCHANGED <<defaultLogger, loggers, closed, info, installs, exited,
                 ncalls>>

\* -------------------------------------------------------------------- Close
\* func Close(): defaultLogger.Close().
PkgClose(t) ==
  /\ CanCall(t)
  /\ frame' = [frame EXCEPT ![t] =
                 [NoFrame EXCEPT !.l = defaultLogger, !.pkg = TRUE,
                    !.readLocked = (logLock = t)]]
  /\ ncalls' = ncalls + 1
  /\ pc' = [pc EXCEPT ![t] = "Close_lock"]
  /\ UNCHANGED <<logLock, defaultLogger, loggers, returned, closed, info,
                 installs, exited>>

\* A call of (l *Logger) Close by the owner of l.
LoggerClose(t, l) ==
  /\ CanCall(t)
  /\ l \in returned
  /\ frame' = [frame EXCEPT ![t] = [NoFrame EXCEPT !.l = l]]
  /\ ncalls' = ncalls + 1
  /\ pc' = [pc EXCEPT ![t] = "Close_lock"]
  /\ UNCHANGED <<logLock, defaultLogger, loggers, returned, closed, info,
                 installs, exited>>

\* The second statement of a Fatal function: l.Close() in the methods,
\* defaultLogger.Close() (a second read of the package variable) at package
\* level.
FatalClose(t) ==
  /\ Running /\ pc[t] = "Fatal_Close"
  /\ frame' = [frame EXCEPT ![t].l = IF frame[t].pkg THEN defaultLogger
                                     ELSE frame[t].l]
  /\ pc' = [pc EXCEPT ![t] = "Close_lock"]
  /\ UNCHANGED <<logLock, defaultLogger, loggers, returned, closed, info,
                 installs, exited, ncalls>>

\* What c.Close() can return for an endpoint given the close counts cl: a
\* closed *os.File returns an error; any other Close succeeds or fails.
CloseResults(e, cl) ==
  IF e = File /\ cl[e] > 0 THEN {"err"} ELSE {"ok", "err"}

\* A loop that ends at the first Close that returns an error.
CloseContinues_StopAtError(res) == res = "ok"

\* Whether the loop of Close goes on to the next closer after a Close
\* returned res: the error is printed to os.Stderr and the loop goes on.
CloseContinues(res) == TRUE

\* for _, c := range l.closers { c.Close() }: the close counts afterwards,
\* failing being the closers whose Close returns an error (besides those
\* that cannot succeed).
RECURSIVE CloseAll(_, _, _)
CloseAll(cl, cs, failing) ==
  IF cs = <<>> THEN cl
  ELSE LET c == Head(cs)
           res == IF c \in failing \/ CloseResults(c, cl) = {"err"}
                    THEN "err" ELSE "ok"
           cl1 == [cl EXCEPT ![c] = @ + 1]
       IN IF CloseContinues(res) THEN CloseAll(cl1, Tail(cs), failing)
          ELSE cl1

\* The closers that the loop of Close reaches: Close on a nil pointer of the
\* adapter's writer type panics, which ends the loop (and the process).
RECURSIVE UpToPanic(_)
UpToPanic(cs) ==
  IF cs = <<>> \/ Head(cs) = NilSysWriter THEN <<>>
  ELSE <<Head(cs)>> \o UpToPanic(Tail(cs))

\* A Close that never returns early.
CloseSkips_Never(lg) == FALSE

\* if !l.initialized { return }
CloseSkips(lg) == ~lg.initialized

\* A Close that clears the initialized flag of its Logger.
AfterClose_ResetsInitialized(lgs, l) == [lgs EXCEPT ![l].initialized = FALSE]

\* The Logger objects after Close ran on l: Close assigns no field of the
\* Logger (and no package variable).
AfterClose(lgs, l) == lgs

\* (l *Logger) Close from logLock.Lock() to the deferred Unlock: everything
\* it does is done under the lock, so it is one step, taken when the mutex
\* is free.
CloseRun(t) ==
  /\ Running /\ pc[t] = "Close_lock"
  /\ logLock = 0
  /\ LET l == frame[t].l
         lg == loggers[l]
         reach == UpToPanic(lg.closers)
     IN IF CloseSkips(lg)
          THEN UNCHANGED <<closed, info, exited, loggers>>
          ELSE /\ loggers' = AfterClose(loggers, l)
               /\ \E failing \in {{}} \cup {{reach[i]} : i \in 1..Len(reach)} :
                    closed' = CloseAll(closed, reach, failing)
               /\ info' = [info EXCEPT ![l].closeRuns = @ + 1]
               /\ exited' = IF Len(reach) < Len(lg.closers) THEN 2 ELSE exited
  /\ pc' = [pc EXCEPT ![t] = IF frame[t].fatal THEN "Fatal_exit" ELSE "idle"]
  /\ frame' = [frame EXCEPT ![t] = IF frame[t].fatal THEN frame[t]
                                   ELSE NoFrame]
  /\ UNCHANGED <<logLock, defaultLogger, returned, installs, ncalls>>

\* os.Exit(1), the last statement of a Fatal function: the process ends, and
\* every other goroutine with it.
FatalExit(t) ==
  /\ Running /\ pc[t] = "Fatal_exit"
  /\ exited' = 1
  /\ pc' = [u \in Threads |-> IF u = t THEN "exit" ELSE "gone"]
  /\ frame' = [u \in Threads |-> IF u = t THEN frame[t] ELSE NoFrame]
  /\ UNCHANGED <<logLock, defaultLogger, loggers, returned, closed, info,
                 installs, ncalls>>

\* ----------------------------------------------------------------- SetFlags
\* The values a caller passes to SetFlags.
FlagArgs == {0}

\* The writers in the order of the statements of SetFlags.
SetFlagsOrder == <<"logTrace", "logInfo", "logWarn", "logError", "logFatal">>

\* defaultLogger.logX.SetFlags(flag), the k-th statement of SetFlags: the
\* package variable is read, without the lock, and the flag of that Logger's
\* writer is set.
SetFlagsStatement(lgs, k, flag) ==
  [lgs EXCEPT ![defaultLogger][SetFlagsOrder[k]].flag = flag]

\* A goroutine enters SetFlags(flag) and executes its first statement.
SetFlagsCall(t, flag) ==
  /\ CanCall(t)
  /\ loggers' = SetFlagsStatement(loggers, 1, flag)
  /\ frame' = [frame EXCEPT ![t] =
                 [NoFrame EXCEPT !.l = defaultLogger, !.setl = defaultLogger,
                    !.pkg = TRUE, !.readLocked = (logLock = t),
                    !.flag = flag, !.nset = 1]]
  /\ ncalls' = ncalls + 1
  /\ pc' = [pc EXCEPT ![t] = "SetFlags"]
  /\ UNCHANGED <<logLock, defaultLogger, returned, closed, info, installs,
                 exited>>

\* The next statement of SetFlags; after the fifth the call returns.
SetFlagsStep(t) ==
  /\ Running /\ pc[t] = "SetFlags"
  /\ LET k == frame[t].nset + 1
     IN /\ loggers' = SetFlagsStatement(loggers, k, frame[t].flag)
        /\ IF k < Len(SetFlagsOrder)
             THEN /\ frame' = [frame EXCEPT ![t].l = defaultLogger,
                                            ![t].nset = k]
                  /\ pc' = pc
             ELSE /\ frame' = [frame EXCEPT ![t] = NoFrame]
                  /\ pc' = [pc EXCEPT ![t] = "idle"]
  /\ UNCHANGED <<logLock, defaultLogger, returned, closed, info, installs,
                 exited, ncalls>>

\* ------------------------------------------------------------ specification
Next ==
  \E t \in Threads :
    \/ \E a \in InitArgs : InitInstall(t, a)
    \/ InitError(t)
    \/ PkgLog(t)
    \/ \E l \in returned : LoggerLog(t, l)
    \/ \E level \in Levels : OutputLock(t, level)
    \/ OutputWrite(t)
    \/ OutputReturn(t)
    \/ PkgClose(t)
    \/ \E l \in returned : LoggerClose(t, l)
    \/ FatalClose(t)
    \/ CloseRun(t)
    \/ FatalExit(t)
    \/ \E flag \in FlagArgs : SetFlagsCall(t, flag)
    \/ SetFlagsStep(t)

Spec == Init /\ [][Next]_vars

\* ------------------------------------------------------------------- claims
InDispatch(t) == pc[t] \in {"output_write", "output_return"}
PastInitCheck(t) == frame[t].inInit
Verbose(l) == info[l].args.verbose
ErrorClass == {eError, eFatal}
WroteTo(t, eps) == \E i \in 1..Len(frame[t].wrote) : frame[t].wrote[i].ep \in eps
\* No write before the console's failed.
NoEarlierFailure(t) ==
  \A i \in 1..Len(frame[t].wrote) :
     frame[t].wrote[i].res = "err" => frame[t].wrote[i].ep \in Console
TagOf(level) ==
  CASE level = eFatal -> "[F] " [] level = eError -> "[E] "
    [] level = eWarn -> "[W] " [] level = eInfo -> "[I] "
    [] level = eTrace -> "[T] "

\* C1: over any number of Init calls in any interleaving the slot is assigned
\* exactly once: as soon as one Init call has passed the check the slot has
\* been assigned once, by the first call that reached the check, and holds
\* that call's Logger; it is never assigned a second time; and every Init
\* call has a Logger of its own, distinct from those of the other calls.
C1_SlotReplacedExactlyOnce ==
  /\ installs <= 1
  /\ (installs = 1) = loggers[defaultLogger].initialized
  /\ (installs = 0) = (defaultLogger = BootId)
  /\ Len(loggers) > 1 => (installs = 1 /\ defaultLogger = BootId + 1)
  /\ returned \subseteq 2..Len(loggers)
  /\ \A t \in Threads : PastInitCheck(t) =>
       /\ frame[t].mine \in 2..Len(loggers)
       /\ frame[t].mine \notin returned
       /\ \A u \in Threads \ {t} :
            PastInitCheck(u) => frame[u].mine # frame[t].mine
  /\ Running =>
       Cardinality(returned) + Cardinality({t \in Threads : PastInitCheck(t)})
         = Len(loggers) - 1

\* Two Init calls have returned their Loggers, one of them in the slot.
C1_Witness ==
  /\ Cardinality(returned) = 2
  /\ defaultLogger \in returned
  /\ installs = 1

\* C2 (as claimed): an Init call whose adapter failed returns its Logger, and
\* exactly one Error message reporting the failure has been emitted: once
\* nothing more can run in a process that has not exited, every such call
\* has returned and reported once.
C2_FailedAdapterInitReturns ==
  (Running /\ ~ENABLED Next) =>
     \A l \in 2..Len(loggers) :
        (info[l].args.systemLog /\ ~info[l].args.adapterOK) =>
           (l \in returned /\ info[l].reported = 1)

\* C3 (as claimed): a write through a fan-out writer attempts every endpoint
\* of the list: when output is about to return, a write has been issued to
\* each endpoint of the severity's list.
C3_EveryEndpointAttempted ==
  \A t \in Threads : pc[t] = "output_return" =>
     Len(frame[t].wrote) = Len(WriterOf(loggers[frame[t].l], frame[t].level).out)

\* C3 (amended): a write through a fan-out writer attempts the endpoints of
\* the list in list order and stops at the first endpoint whose write fails:
\* the endpoints before it received the write, those after it are not written.
C3_StopsAtFirstFailure ==
  \A t \in Threads : InDispatch(t) =>
     LET out == WriterOf(loggers[frame[t].l], frame[t].level).out
         wrote == frame[t].wrote
         k == Len(wrote)
     IN /\ k <= Len(out)
        /\ \A i \in 1..k : wrote[i].ep = out[i]
        /\ \A i \in 1..k : i < k => wrote[i].res = "ok"
        /\ pc[t] = "output_write" =>
             (k < Len(out) /\ \A i \in 1..k : wrote[i].res = "ok")
        /\ pc[t] = "output_return" =>
             (k >= 1 /\ (k = Len(out) \/ wrote[k].res = "err"))

\* The write to the first of several endpoints failed and output returns
\* with the later ones unwritten.
C3_Witness ==
  \E t \in Threads :
     /\ pc[t] = "output_return"
     /\ Len(frame[t].wrote) = 1
     /\ frame[t].wrote[1].res = "err"
     /\ Len(WriterOf(loggers[frame[t].l], frame[t].level).out) >= 2

C5_EndpointClosedAtMostOnce ==
  /\ \A l \in 1..Len(loggers) :
        loggers[l].closers # <<>> => info[l].closeRuns <= 1
  /\ exited # 2

\* C6 (as claimed): a Fatal function writes the message to the Fatal writer
\* of a Logger, then completes Close on the closers of that Logger, then
\* exits with a non-zero status: the Close it runs is on the Logger the
\* message was written to, comes after the write, and the exit comes after
\* the Close.
C6_FatalWriteCloseExit ==
  /\ \A t \in Threads :
        (frame[t].fatal /\ pc[t] \in {"Close_lock", "Fatal_exit"})
           => /\ frame[t].l = frame[t].outl
              /\ frame[t].outl # 0
  /\ exited = 1 => \E t \in Threads :
                      frame[t].fatal /\ pc[t] = "exit" /\ frame[t].l = frame[t].outl
  /\ \A t \in Threads :
        (frame[t].fatal /\ pc[t] \in {"output_lock", "output_write"})
           => frame[t].outl = 0

\* C7: at most one goroutine is inside the write dispatch of output at any
\* time, and it holds logLock: a goroutine that has written a line to some
\* of its endpoints finishes with the others before any other goroutine
\* writes.
C7_OneWriterAtATime ==
  /\ Cardinality({t \in Threads : InDispatch(t)}) <= 1
  /\ \A t \in Threads : InDispatch(t) => logLock = t

\* One goroutine is between two endpoints of an Error line while another,
\* emitting to another Logger whose writers share an endpoint with that
\* line's, waits for the lock.
C7_Witness ==
  \E t \in Threads, u \in Threads :
     /\ t # u
     /\ pc[t] = "output_write" /\ Len(frame[t].wrote) >= 1
     /\ frame[t].level = eError
     /\ Len(frame[t].wrote) < Len(loggers[frame[t].l].logError.out)
     /\ pc[u] = "output_lock"
     /\ frame[u].l # frame[t].l
     /\ \E lv \in Levels :
          \E i \in 1..Len(WriterOf(loggers[frame[u].l], lv).out) :
             \E j \in 1..Len(loggers[frame[t].l].logError.out) :
                WriterOf(loggers[frame[u].l], lv).out[i]
                  = loggers[frame[t].l].logError.out[j]

\* C8 (as claimed): an emission call on a Logger on which Close has run fails
\* loudly: it never comes to its normal return.
C8_UseAfterCloseFailsLoudly ==
  \A t \in Threads :
     (frame[t].afterClose /\ loggers[frame[t].l].initialized)
        => pc[t] # "output_return"

\* C9: until the first Init call the slot holds the bootstrap Logger, and a
\* package-level emission at any level is written to the console and to
\* nothing else, with the prefix "Logging before logger.Init." followed by the
\* tag of the level, and comes to its return; the process does not crash.
C9_BootstrapConsoleOnly ==
  Len(loggers) = 1 =>
     /\ defaultLogger = BootId
     /\ ~loggers[defaultLogger].initialized
     /\ exited # 2
     /\ \A e \in Endpoints : closed[e] = 0
     /\ \A t \in Threads :
          /\ pc[t] = "output_write" => frame[t].wrote = <<>>
          /\ pc[t] = "output_return" =>
               /\ frame[t].pkg
               /\ Len(frame[t].wrote) = 1
               /\ frame[t].wrote[1].ep = Stderr
               /\ frame[t].wrote[1].prefix =
                    "Logging before logger.Init.\n" \o TagOf(frame[t].level)

\* Before any Init call, a package-level Warning has been written to the
\* console and is about to return.
C9_Witness ==
  /\ Len(loggers) = 1
  /\ \E t \in Threads :
       /\ pc[t] = "output_return"
       /\ frame[t].pkg
       /\ frame[t].level = eWarn
       /\ frame[t].wrote[1].ep = Stderr

\* C10 (as claimed): every package-level function reads defaultLogger while
\* holding logLock.
C10_SlotReadUnderLock ==
  \A t \in Threads : frame[t].pkg => frame[t].readLocked

\* How many times Close has run the closers of the first n Loggers that
\* were built with the caller's file e.
RECURSIVE CloseRunsOn(_, _)
CloseRunsOn(e, n) ==
  IF n = 0 THEN 0
  ELSE CloseRunsOn(e, n - 1)
         + (IF info[n].args.logFile = e THEN info[n].closeRuns ELSE 0)

\* C11: one Close on an initialized Logger invokes the Close of every
\* endpoint among its closers exactly once, goes on with the remaining
\* endpoints when the Close of one of them fails, and returns normally: every
\* system-log writer has been closed once for each Close that ran on its
\* Logger, and the caller's file once for each Close that ran on a Logger
\* built with it, whichever Close calls returned an error; and no Close call
\* has ended the process or waits for a lock its goroutine holds.
C11_CloseClosesEveryEndpointOnce ==
  /\ \A l \in 2..Len(loggers) :
        \A i \in 1..Len(loggers[l].closers) :
           LET c == loggers[l].closers[i]
           IN c[1] \in SysKinds => closed[c] = info[l].closeRuns
  /\ closed[File] = CloseRunsOn(File, Len(loggers))
  /\ exited # 2
  /\ \A t \in Threads : pc[t] = "Close_lock" => logLock # t

\* Close ran twice on a Logger with the caller's file and the three
\* system-log writers: in the second run the Close of the file, first of the
\* closers, failed, and the three writers after it were closed all the same.
C11_Witness ==
  \E l \in 1..Len(loggers) :
     /\ Len(loggers[l].closers) = 4
     /\ loggers[l].closers[1] = File
     /\ info[l].closeRuns = 2
     /\ closed[File] = 2
     /\ \A i \in 2..4 : closed[loggers[l].closers[i]] = 2

\* The endpoints of a Logger: those of its five lists, and its closers.
ListedIn(lg) ==
  UNION {{WriterOf(lg, lv).out[i] : i \in 1..Len(WriterOf(lg, lv).out)} :
           lv \in Levels}
ClosersOf(lg) == {lg.closers[i] : i \in 1..Len(lg.closers)}
AdapterFailed(l) == info[l].args.systemLog /\ ~info[l].args.adapterOK
AdapterObtained(l) == info[l].args.systemLog /\ info[l].args.adapterOK
\* The console element of a level's list, by the console rule.
ConsoleOf(l, level) ==
  IF level \in ErrorClass THEN <<Stderr>>
  ELSE IF Verbose(l) THEN <<Stdout>> ELSE <<>>
\* The system-log writer of a level's class, of the Logger numbered l.
ClassOf(l, level) ==
  IF level \in ErrorClass THEN <<"el", l>>
  ELSE IF level = eWarn THEN <<"wl", l>> ELSE <<"il", l>>

\* C12 (as claimed): a Logger built by an Init call whose adapter failed is
\* built only from the endpoints that succeeded: no absent system-log
\* endpoint is in any of its lists or among its closers, and each list is
\* the caller sink followed by the console where the console rule applies.
C12_OnlyObtainedEndpoints ==
  \A l \in 2..Len(loggers) :
     AdapterFailed(l) =>
        /\ NilSysWriter \notin ListedIn(loggers[l])
        /\ NilSysWriter \notin ClosersOf(loggers[l])
        /\ \A lv \in Levels :
             WriterOf(loggers[l], lv).out
               = <<info[l].args.logFile>> \o ConsoleOf(l, lv)

\* C13 (as claimed): each list of a Logger built by Init is the caller sink,
\* then the system-log writer of the level's class when the adapter supplied
\* one, then the console when the console rule includes it, and nothing else.
C13_EndpointListOrder ==
  \A l \in 2..Len(loggers) : \A lv \in Levels :
     WriterOf(loggers[l], lv).out
       = <<info[l].args.logFile>>
           \o (IF AdapterObtained(l) THEN <<ClassOf(l, lv)>> ELSE <<>>)
           \o ConsoleOf(l, lv)

\* C14 (as claimed): the closers of a Logger built by Init are exactly the
\* closable ones among the caller sink and the system-log writers obtained,
\* each at most once; the console is not among them and is never closed.
C14_ClosersExactlyClosable ==
  /\ \A l \in 2..Len(loggers) :
        /\ ClosersOf(loggers[l])
             = {e \in {info[l].args.logFile}
                        \cup (IF AdapterObtained(l)
                                THEN {<<k, l>> : k \in SysKinds} ELSE {}) :
                  IsCloser(e)}
        /\ \A i \in 1..Len(loggers[l].closers) :
              \A j \in 1..Len(loggers[l].closers) :
                 loggers[l].closers[i] = loggers[l].closers[j] => i = j
        /\ ClosersOf(loggers[l]) \cap Console = {}
  /\ \A e \in Console : closed[e] = 0

\* C15: Close on a Logger whose initialized flag is false, the bootstrap
\* Logger, is a no-op: Close never runs the closers loop on it and leaves its
\* writers, its closers and its flag as initialize built them; while no Init
\* call has been made the slot holds it, no endpoint has been closed, and a
\* package-level Fatal ends the process with status 1 and no other way.
C15_CloseOfBootstrapIsNoOp ==
  /\ ~loggers[BootId].initialized
  /\ loggers[BootId].closers = <<>>
  /\ info[BootId].closeRuns = 0
  /\ \A lv \in Levels :
        LET w == WriterOf(loggers[BootId], lv)
        IN w.out = <<Stderr>> /\ w.prefix = WriterOf(initialize, lv).prefix
  /\ Len(loggers) = 1 =>
        /\ defaultLogger = BootId
        /\ \A e \in Endpoints : closed[e] = 0
        /\ exited \in {0, 1}
        /\ \A t \in Threads :
              pc[t] \in {"Close_lock", "Fatal_exit", "exit"}
                 => frame[t].l = BootId

\* Before any Init call a package-level Fatal has written its message, run
\* Close on the bootstrap Logger and ended the process with status 1.
C15_Witness ==
  /\ Len(loggers) = 1
  /\ exited = 1
  /\ \E t \in Threads :
       pc[t] = "exit" /\ frame[t].pkg /\ frame[t].fatal
         /\ frame[t].l = BootId /\ frame[t].outl = BootId

\* C16 (as claimed): a package-level Fatal call runs Close on the Logger it
\* wrote the fatal message to, also when an Init call assigns the slot
\* between the two.
C16_FatalClosesEmittedLogger ==
  \A t \in Threads :
     (frame[t].pkg /\ frame[t].fatal /\ frame[t].outl # 0
        /\ pc[t] \in {"Close_lock", "Fatal_exit", "exit"})
        => frame[t].l = frame[t].outl

\* C17 (as claimed): one SetFlags call sets the flag of the five writers of
\* one and the same Logger: all the statements a call has executed applied
\* to the Logger its first statement applied to, and while no SetFlags call
\* is under way the five writers of every Logger have the same flag.
C17_SetFlagsOneLogger ==
  /\ \A t \in Threads : pc[t] = "SetFlags" => frame[t].l = frame[t].setl
  /\ (Running /\ \A t \in Threads : pc[t] # "SetFlags") =>
        \A l \in 1..Len(loggers) : \A lv \in Levels :
           WriterOf(loggers[l], lv).flag = loggers[l].logTrace.flag

\* C18 (as claimed): no goroutine tries to acquire logLock while it holds it,
\* and every call returns: once nothing more can run in a process that has
\* not exited, no goroutine is inside a call.
C18_NoSelfDeadlock ==
  /\ \A t \in Threads :
        pc[t] \in {"output_lock", "Close_lock"} => logLock # t
  /\ (Running /\ ~ENABLED Next) => \A t \in Threads : pc[t] = "idle"

====
